---- MODULE Spec2Model ----
(***************************************************************************)
(* Model of fracnum/plotting_utils.py: the segment builder colored_line,   *)
(* the gradient helper truncate_colormap and the VdP_Plotter class.        *)
(*                                                                         *)
(* Numbers.  Coordinates are held as integer counts of one half, so that   *)
(* the midpoint 0.5 * (a + b) of two integer coordinates is exact.         *)
(* Caption numbers are held as integer counts of one thousandth, with the  *)
(* Python type (int or float) beside them; str() and np.round() are        *)
(* computed digit by digit.  Gradient positions are counts of one          *)
(* hundredth and colours are integers.                                     *)
(***************************************************************************)
EXTENDS Integers, Sequences, FiniteSets, TLC

VARIABLES line, cm, self, self0, plt, ops, ret

vars == <<line, cm, self, self0, plt, ops, ret>>

(***************************************************************************)
(* Bounds of the model.                                                    *)
(***************************************************************************)
MaxLen == 3
MaxN == 4
MaxCalls == 3

(***************************************************************************)
(* Small helpers standing for Python / numpy primitives.                   *)
(***************************************************************************)
Range(s) == {s[i] : i \in DOMAIN s}

SeqsOf(S, lo, hi) == UNION {[1..n -> S] : n \in lo..hi}

\* d1.update(d2) on dictionaries held as functions from keys to values
DictUpdate(d1, d2) ==
    [k \in (DOMAIN d1) \cup (DOMAIN d2) |-> IF k \in DOMAIN d2 THEN d2[k] ELSE d1[k]]

\* np.asarray(x): the coordinates, in halves
asarray(x) == [i \in 1..Len(x) |-> 2 * x[i]]

\* a[:-1] and a[1:]
ButLast(a) == SubSeq(a, 1, Len(a) - 1)
Rest(a) == SubSeq(a, 2, Len(a))

\* midpts with the neighbour on the wrong side
midpts_wrong_neighbour(a) ==
    <<a[1]>> \o [k \in 1..(Len(a) - 1) |-> (a[k] + a[IF k = 1 THEN 1 ELSE k - 1]) \div 2]
             \o <<a[Len(a)]>>

\* np.hstack((a[0], 0.5 * (a[1:] + a[:-1]), a[-1])); a is not empty
midpts(a) ==
    <<a[1]>> \o [k \in 1..(Len(a) - 1) |-> (a[k + 1] + a[k]) \div 2] \o <<a[Len(a)]>>

\* np.column_stack((a, b))[:, np.newaxis, :]; the caller checks Len(a) = Len(b)
column_stack(a, b) == [i \in 1..Len(a) |-> <<a[i], b[i]>>]

\* concatenate with the parts in the wrong order
concatenate_mid_first(s, m, e) == [i \in 1..Len(m) |-> <<m[i], s[i], e[i]>>]

\* np.concatenate((s, m, e), axis=1) of three (N, 1, 2) arrays
concatenate(s, m, e) == [i \in 1..Len(m) |-> <<s[i], m[i], e[i]>>]

(***************************************************************************)
(* Colour gradients (matplotlib colormaps).  A gradient is a name and the  *)
(* colours of its evenly spaced nodes; its lookup table of LutN entries    *)
(* interpolates linearly between the nodes and is read entry by entry.     *)
(* One colour channel is kept (the channels are treated alike).  Colours   *)
(* are integers; the registered gradients use multiples of                 *)
(* (LutN - 1)^2 so that two nested interpolations stay exact.              *)
(***************************************************************************)
LutN == 256

Digit(d) == ToString(d)

\* '{:.2f}'.format(h / 100) for a count h >= 0 of hundredths
Fmt2f(h) == ToString(h \div 100) \o "." \o Digit((h % 100) \div 10) \o Digit(h % 10)

\* the registered gradients colored_line can be handed by name
Cmaps(name) ==
    CASE name = "viridis" -> [name |-> "viridis", colors |-> <<0, 65025, 4 * 65025>>]
      [] name = "magma_r" -> [name |-> "magma_r", colors |-> <<9 * 65025, 65025, 0>>]
      [] OTHER -> [name |-> name, colors |-> <<0, 65025>>]

\* linspace without its endpoint (np.linspace(a, b, n, endpoint=False))
linspace_no_endpoint(a, b, n) ==
    [i \in 1..n |-> <<a * n + (i - 1) * (b - a), 100 * n>>]

\* np.linspace(a, b, n): the positions as fractions <<numerator, denominator>>,
\* a and b in hundredths
linspace(a, b, n) ==
    IF n = 1 THEN <<(<<a, 100>>)>>
    ELSE [i \in 1..n |-> <<a * (n - 1) + (i - 1) * (b - a), 100 * (n - 1)>>]

\* entry j (0 .. LutN-1) of the lookup table of gradient g
\* (matplotlib _create_lookup_table on the from_list segment data)
LutAt(g, j) ==
    LET n == Len(g.colors)
        y == g.colors
        \* np.searchsorted: the first node k (0-based) at or after entry j
        k == CHOOSE kk \in 1..(n - 1) :
                 /\ kk * (LutN - 1) >= j * (n - 1)
                 /\ (kk - 1) * (LutN - 1) < j * (n - 1)
    IN  IF j = 0 THEN y[1]
        ELSE IF j = LutN - 1 THEN y[n]
        ELSE y[k] + ((j * (n - 1) - (k - 1) * (LutN - 1)) * (y[k + 1] - y[k])) \div (LutN - 1)

\* cmap(X) for one position X = <<num, den>> in [0, 1]: Colormap.__call__
CmapCall(g, X) ==
    LET xa == (X[1] * LutN) \div X[2]
    IN  LutAt(g, IF xa >= LutN THEN LutN - 1 ELSE xa)

\* colors.LinearSegmentedColormap.from_list(name, colors)
from_list(name, colors) == [name |-> name, colors |-> colors]

truncate_colormap(cmap, minval, maxval, n) ==
    from_list("trunc(" \o cmap.name \o "," \o Fmt2f(minval) \o "," \o Fmt2f(maxval) \o ")",
              LET X == linspace(minval, maxval, n)
              IN  [i \in 1..n |-> CmapCall(cmap, X[i])])

(***************************************************************************)
(* colored_line                                                            *)
(***************************************************************************)
NoCmap == [name |-> "", colors |-> <<>>]

\* LineCollection(segments, **kwargs): the keyword arguments become properties;
\* array defaults to None (held as <<>>), cmap to the default gradient
LineCollection(segments, kwargs) ==
    LET props == DictUpdate([array |-> <<>>, cmap |-> "viridis"], kwargs)
    IN  [segments |-> segments, props |-> props, cmap |-> Cmaps(props["cmap"])]

\* set_array that leaves the caller's array in place
set_array_kept(lc, c) == lc

set_array(lc, c) == [lc EXCEPT !.props = DictUpdate(@, [array |-> c])]

get_cmap(lc) == lc.cmap

set_cmap(lc, g) == [lc EXCEPT !.cmap = g]

ArrayWarning == "The provided \"array\" keyword argument will be overridden"

\* the outcome of a call that raised `exc` at step `at`
Raised(exc, at, warned) ==
    [raised |-> exc, at |-> at, warnings |-> warned,
     x_midpts |-> <<>>, y_midpts |-> <<>>, ax |-> <<>>]

\* RaiseSite with an explicit check of the colour values added
RaiseSite_validating(xa, ya, c) ==
    IF Len(c) # Len(xa) THEN <<"ValueError", "colored_line">>
    ELSE IF Len(xa) = 0 THEN <<"IndexError", "x[0]">>
    ELSE IF Len(ya) = 0 THEN <<"IndexError", "y[0]">>
    ELSE IF Len(xa) # Len(ya) THEN <<"ValueError", "column_stack">>
    ELSE <<"none", "">>

\* Where colored_line raises on arrays xa, ya and colour values c, as
\* <<exception, step>>: a[0] of an empty array is an IndexError, np.column_stack
\* of arrays of different lengths is a ValueError; nothing reads the length of c
RaiseSite(xa, ya, c) ==
    IF Len(xa) = 0 THEN <<"IndexError", "x[0]">>
    ELSE IF Len(ya) = 0 THEN <<"IndexError", "y[0]">>
    ELSE IF Len(xa) # Len(ya) THEN <<"ValueError", "column_stack">>
    ELSE <<"none", "">>

\* colored_line(x, y, c, ax, cmap_trunc, **lc_kwargs) on an empty surface ax:
\* what was raised and where, the warnings emitted, the midpoint arrays, and the
\* collections the surface holds afterwards (the returned collection is ax[1])
colored_line(x, y, c, cmap_trunc, lc_kwargs) ==
    LET warned == IF "array" \in DOMAIN lc_kwargs THEN <<ArrayWarning>> ELSE <<>>
        default_kwargs == DictUpdate([capstyle |-> "butt"], lc_kwargs)
        xa == asarray(x)
        ya == asarray(y)
        site == RaiseSite(xa, ya, c)
    IN  IF site[1] # "none" THEN Raised(site[1], site[2], warned)
        ELSE
          LET x_midpts == midpts(xa)
              y_midpts == midpts(ya)
              coord_start == column_stack(ButLast(x_midpts), ButLast(y_midpts))
              coord_mid == column_stack(xa, ya)
              coord_end == column_stack(Rest(x_midpts), Rest(y_midpts))
              segments == concatenate(coord_start, coord_mid, coord_end)
              lc == set_array(LineCollection(segments, default_kwargs), c)
              new_cmap == truncate_colormap(get_cmap(lc), cmap_trunc[1], cmap_trunc[2], Len(xa))
          IN  [raised |-> "none", at |-> "", warnings |-> warned,
               x_midpts |-> x_midpts, y_midpts |-> y_midpts,
               ax |-> <<set_cmap(lc, new_cmap)>>]

(***************************************************************************)
(* Specification SpecLine: calls of colored_line on bounded inputs.        *)
(***************************************************************************)
Coord == {0 - 1, 0, 2}

CoordSeqs == SeqsOf(Coord, 0, MaxLen)

\* colour values as the plotter passes them: the sample times 0, 1, 2, ...
ColorSeqs == {[i \in 1..n |-> i - 1] : n \in 0..MaxLen}

\* pass-through drawing options: none, a line width, or a caller's "array"
KwargsSet == {<<>>, [linewidth |-> 2], [array |-> <<7, 7>>], [array |-> <<7>>, capstyle |-> "round"]}

\* a call about to be made: its arguments, and no outcome yet
Pending(x, y, c, kw) ==
    [x |-> x, y |-> y, c |-> c, kwargs |-> kw, called |-> FALSE,
     out |-> Raised("none", "", <<>>)]

InitLine ==
    /\ \E x \in CoordSeqs, y \in CoordSeqs, c \in ColorSeqs, kw \in KwargsSet :
          line = Pending(x, y, c, kw)
    /\ cm = <<>>
    /\ self = <<>>
    /\ self0 = <<>>
    /\ plt = <<>>
    /\ ops = 0
    /\ ret = <<>>

ColoredLineCall ==
    /\ ~line.called
    /\ line' = [line EXCEPT !.called = TRUE,
                            !.out = colored_line(line.x, line.y, line.c, <<0, 100>>, line.kwargs)]
    /\ UNCHANGED <<cm, self, self0, plt, ops, ret>>

NextLine == ColoredLineCall

SpecLine == InitLine /\ [][NextLine]_vars

(***************************************************************************)
(* Properties of colored_line (specification SpecLine).                    *)
(***************************************************************************)
\* the call was made on N >= 2 points (x[i], y[i])
LinePoints == line.called /\ Len(line.x) = Len(line.y) /\ Len(line.x) >= 2

N == Len(line.x)

\* the sub-segments of the collection the call added to the surface
Segs == line.out.ax[1].segments

\* point i of the input and entry i of the midpoint sequence, in halves
Point(i) == <<2 * line.x[i], 2 * line.y[i]>>

Mid(i) == <<line.out.x_midpts[i], line.out.y_midpts[i]>>

\* C1: for N >= 2 points colored_line builds exactly N sub-segments, each a chain
\* of exactly 3 points, and the last point of sub-segment i equals the first point
\* of sub-segment i+1 (no gap).
C1_NoGap ==
    LinePoints =>
        /\ line.out.raised = "none"
        /\ Len(line.out.ax) = 1
        /\ Len(Segs) = N
        /\ \A i \in 1..N : Len(Segs[i]) = 3 /\ \A j \in 1..3 : Len(Segs[i][j]) = 2
        /\ \A i \in 1..(N - 1) : Segs[i][3] = Segs[i + 1][1]

\* a call on three points that do not lie on one line
C1_Witness ==
    /\ LinePoints
    /\ N = 3
    /\ line.x = <<0, 2, 0>>
    /\ line.y = <<0, 0, 2>>
    /\ line.out.raised = "none"

\* C2: the midpoint sequence has N+1 entries: the first point, the N-1 pairwise
\* midpoints 0.5*(point[i] + point[i+1]) in order, the last point; and sub-segment
\* i is the chain [m[i], point[i], m[i+1]].
C2_Midpoints ==
    LinePoints =>
        /\ Len(line.out.x_midpts) = N + 1
        /\ Len(line.out.y_midpts) = N + 1
        /\ Mid(1) = Point(1)
        /\ Mid(N + 1) = Point(N)
        /\ \A i \in 1..(N - 1) :
              /\ 2 * Mid(i + 1)[1] = Point(i)[1] + Point(i + 1)[1]
              /\ 2 * Mid(i + 1)[2] = Point(i)[2] + Point(i + 1)[2]
        /\ \A i \in 1..N : Segs[i] = <<Mid(i), Point(i), Mid(i + 1)>>

\* a call on two points: the midpoint sequence has three entries, the middle one
\* strictly between the points
C2_Witness ==
    /\ LinePoints
    /\ N = 2
    /\ line.x = <<0, 2>>
    /\ line.y = <<2, 0 - 1>>
    /\ Len(line.out.x_midpts) = 3
    /\ line.out.x_midpts[2] = 2
    /\ line.out.y_midpts[2] = 1

\* C7: the colour array bound to the collection is always c, with c[i] on
\* sub-segment i; a caller's "array" option does not make the call fail, draws a
\* warning and is overridden by c; without it no warning is emitted.
C7_ArrayIsC ==
    line.called =>
        /\ (line.out.warnings # <<>>) <=> ("array" \in DOMAIN line.kwargs)
        /\ ("array" \in DOMAIN line.kwargs) => line.out.warnings = <<ArrayWarning>>
        /\ (Len(line.x) = Len(line.y) /\ Len(line.x) >= 1) => line.out.raised = "none"
        /\ line.out.raised = "none" =>
              /\ line.out.ax[1].props["array"] = line.c
              /\ Len(line.c) = N =>
                    \A i \in 1..N : line.out.ax[1].props["array"][i] = line.c[i]

\* a call with an "array" option that differs from c
C7_Witness ==
    /\ LinePoints
    /\ "array" \in DOMAIN line.kwargs
    /\ line.kwargs["array"] # line.c
    /\ Len(line.c) = N
    /\ line.out.raised = "none"
    /\ line.out.warnings = <<ArrayWarning>>

\* C8 as stated: whenever x, y and the colour values do not all have the same
\* length, the call fails with a dimension error raised by the stacking step
\* (read on non-empty sequences, the inputs the specification describes).
C8_AsStated ==
    (/\ line.called
     /\ Len(line.x) >= 1 /\ Len(line.y) >= 1 /\ Len(line.c) >= 1
     /\ ~(Len(line.x) = Len(line.y) /\ Len(line.y) = Len(line.c))) =>
        /\ line.out.raised = "ValueError"
        /\ line.out.at = "column_stack"

\* C8 as amended: colored_line validates nothing itself.  Non-empty x and y of
\* different lengths fail with the dimension error of the stacking step; an
\* empty x or y fails with the index error of reading its first element; colour
\* values of another length are not detected: the call completes and binds them.
C8_Amended ==
    line.called =>
        /\ line.out.at \in {"", "x[0]", "y[0]", "column_stack"}
        /\ (Len(line.x) >= 1 /\ Len(line.y) >= 1 /\ Len(line.x) # Len(line.y)) =>
              (line.out.raised = "ValueError" /\ line.out.at = "column_stack")
        /\ (Len(line.x) = 0 \/ Len(line.y) = 0) => line.out.raised = "IndexError"
        /\ (Len(line.x) >= 1 /\ Len(line.x) = Len(line.y)) =>
              (line.out.raised = "none" /\ line.out.ax[1].props["array"] = line.c)

\* a call whose x and y agree and whose colour values are one short: it completes
C8_Witness ==
    /\ LinePoints
    /\ Len(line.c) = N - 1
    /\ line.out.raised = "none"
    /\ Len(Segs) = N

(***************************************************************************)
(* Specification SpecCmap: a gradient truncated, and the result truncated  *)
(* again with the same bounds and sample count.                            *)
(***************************************************************************)
BaseNames == {"viridis", "magma_r", "gray"}

\* the gradient ranges of the source: colored_line's default [0, 1], phase's
\* [0.15, 0.75], truncate_colormap's defaults (0.2, 0.8); and the lower half
TruncBounds == {<<0, 100>>, <<15, 75>>, <<20, 80>>, <<0, 50>>}

InitCmap ==
    /\ \E name \in BaseNames, ab \in TruncBounds, n \in 2..MaxN :
          cm = [cmap |-> Cmaps(name), minval |-> ab[1], maxval |-> ab[2], n |-> n,
                step |-> 0, once |-> NoCmap, twice |-> NoCmap]
    /\ line = Pending(<<>>, <<>>, <<>>, <<>>)
    /\ self = <<>>
    /\ self0 = <<>>
    /\ plt = <<>>
    /\ ops = 0
    /\ ret = <<>>

Truncate ==
    /\ cm.step = 0
    /\ cm' = [cm EXCEPT !.step = 1,
                        !.once = truncate_colormap(cm.cmap, cm.minval, cm.maxval, cm.n)]
    /\ UNCHANGED <<line, self, self0, plt, ops, ret>>

Retruncate ==
    /\ cm.step = 1
    /\ cm' = [cm EXCEPT !.step = 2,
                        !.twice = truncate_colormap(cm.once, cm.minval, cm.maxval, cm.n)]
    /\ UNCHANGED <<line, self, self0, plt, ops, ret>>

NextCmap == Truncate \/ Retruncate

SpecCmap == InitCmap /\ [][NextCmap]_vars

\* gradient g read at k evenly spaced positions 0, 1/(k-1), ..., 1
SampledEvenly(g, k) == [i \in 1..k |-> CmapCall(g, <<i - 1, k - 1>>)]

\* with bounds (0, 1) and n = k the truncated gradient is built from the original
\* read at k evenly spaced positions
C6_FullRange ==
    (cm.step >= 1 /\ cm.minval = 0 /\ cm.maxval = 100) =>
        /\ cm.once.colors = SampledEvenly(cm.cmap, cm.n)
        /\ cm.once.colors[1] = cm.cmap.colors[1]
        /\ cm.once.colors[cm.n] = cm.cmap.colors[Len(cm.cmap.colors)]

\* C6 as stated: bounds (0, 1) and n = k reproduce the original sampled at k
\* evenly spaced points, and truncating the result again with the same bounds and
\* n yields the same gradient (a from_list gradient is given by its node colours).
C6_AsStated ==
    /\ C6_FullRange
    /\ cm.step = 2 => cm.twice.colors = cm.once.colors

\* C6 as amended: the first half as stated; truncating again with the same bounds
\* keeps the two end colours when the bounds are (0, 1), and yields the same
\* colours when moreover n = 2.  For other bounds, or interior nodes, the second
\* truncation reads the first one between its nodes and the colours change.
C6_Amended ==
    /\ C6_FullRange
    /\ (cm.step = 2 /\ cm.minval = 0 /\ cm.maxval = 100) =>
          /\ cm.twice.colors[1] = cm.once.colors[1]
          /\ cm.twice.colors[cm.n] = cm.once.colors[cm.n]
          /\ cm.n = 2 => cm.twice.colors = cm.once.colors

\* a two-colour truncation over the full range, truncated again
C6_Witness ==
    /\ cm.step = 2
    /\ cm.minval = 0
    /\ cm.maxval = 100
    /\ cm.n = 2
    /\ cm.once.colors[1] # cm.once.colors[2]
    /\ cm.twice.colors = cm.once.colors

(***************************************************************************)
(* Python values of the captions.  None is the empty tuple and any other   *)
(* value v of an optional argument is <<v>>.  A number is its Python type  *)
(* and its value m in thousandths, m >= 0.                                 *)
(***************************************************************************)
None == <<>>

Some(v) == <<v>>

PyInt(k) == [ty |-> "int", m |-> 1000 * k]

PyFloat(m) == [ty |-> "float", m |-> m]

\* str(v): an int prints its digits; a float prints its shortest decimal form,
\* with at least one digit after the point
str(v) ==
    LET whole == ToString(v.m \div 1000)
        f == v.m % 1000
    IN  IF v.ty = "int" THEN whole
        ELSE IF f % 100 = 0 THEN whole \o "." \o Digit(f \div 100)
        ELSE IF f % 10 = 0 THEN whole \o "." \o Digit(f \div 100) \o Digit((f \div 10) % 10)
        ELSE whole \o "." \o Digit(f \div 100) \o Digit((f \div 10) % 10) \o Digit(f % 10)

\* np.round(v, 2): an int is returned as it is, a float goes to the nearest
\* hundredth (a tie, which no input of the model is, to the even one)
np_round(v) ==
    LET r == v.m % 10
        q == v.m \div 10
    IN  IF v.ty = "int" THEN v
        ELSE IF r < 5 THEN PyFloat(10 * q)
        ELSE IF r > 5 THEN PyFloat(10 * (q + 1))
        ELSE PyFloat(10 * (IF q % 2 = 0 THEN q ELSE q + 1))

\* int(v): truncation towards zero
int(v) == [ty |-> "int", m |-> 1000 * (v.m \div 1000)]

\* f"{v:.4f}" of a number held in thousandths
Fmt4f(v) ==
    ToString(v.m \div 1000) \o "." \o Digit((v.m % 1000) \div 100)
        \o Digit((v.m % 100) \div 10) \o Digit(v.m % 10) \o "0"

(***************************************************************************)
(* VdP_Plotter.generate_captions                                           *)
(***************************************************************************)
\* the forcing is announced whenever forcing parameters are given
forcing_string_unchecked(s) ==
    IF s.forcing_params # None THEN "forced " ELSE ""

forcing_string(s) ==
    IF s.forcing_params # None /\ s.forcing_params[1].A.m # 0 THEN "forced " ELSE ""

\* the amplitude rounded like the frequency
forcing_settings_string_rounded(s) ==
    IF s.forcing_params # None /\ s.forcing_params[1].A.m # 0
    THEN ", A=" \o str(np_round(s.forcing_params[1].A))
             \o ", \\omega=" \o str(np_round(s.forcing_params[1].omega))
    ELSE ""

forcing_settings_string(s) ==
    IF s.forcing_params # None /\ s.forcing_params[1].A.m # 0
    THEN ", A=" \o str(s.forcing_params[1].A)
             \o ", \\omega=" \o str(np_round(s.forcing_params[1].omega))
    ELSE ""

fractional_settings_string(s) ==
    IF s.alpha.m = 1000 THEN "" ELSE "\\alpha=" \o str(s.alpha) \o ", "

fractional_string(s) ==
    IF s.alpha.m = 1000 THEN "" ELSE "fractionally "

\* the pair <<title, subtitle>>
generate_captions(s) ==
    <<fractional_string(s) \o "dampened " \o forcing_string(s) \o "VdP Oscillator",
      "$" \o fractional_settings_string(s) \o "\\mu=" \o str(s.params.mu)
          \o forcing_settings_string(s) \o ". T = " \o str(np_round(s.T))
          \o ", h=" \o str(np_round(s.dt)) \o ", q = " \o str(int(s.n_eval)) \o "$">>

\* VdP_Plotter(x, xder, t, params, alpha, dt, T, n_eval, comp_time, forcing_params)
VdP_Plotter(x, xder, t, params, alpha, dt, T, n_eval, comp_time, forcing_params) ==
    LET s == [x |-> x, xder |-> xder, t |-> t, params |-> params, alpha |-> alpha,
              dt |-> dt, T |-> T, n_eval |-> n_eval, comp_time |-> comp_time,
              forcing_params |-> forcing_params, title |-> "", param_desciption |-> ""]
    IN  [s EXCEPT !.title = generate_captions(s)[1],
                  !.param_desciption = generate_captions(s)[2]]

(***************************************************************************)
(* pyplot: the figures created so far, the newest being the current one,   *)
(* and the number of times plt.show() was called.  A figure keeps what was *)
(* drawn and set on it, the path it was saved to, the arguments of the     *)
(* call that made it and the sequence of pyplot calls made on it.          *)
(***************************************************************************)
NoFigures == [figs |-> <<>>, shows |-> 0]

Max(a) == CHOOSE v \in Range(a) : \A w \in Range(a) : w <= v

Min(a) == CHOOSE v \in Range(a) : \A w \in Range(a) : v <= w

\* margin_pct = 0.1 as a count of tenths; axis limits are held in tenths
margin_pct == 1

\* the margin taken from the far side only
limits_one_sided(a) ==
    LET dist == Max(a) - Min(a)
        margin == margin_pct * dist
    IN  <<10 * Min(a), 10 * Max(a) + margin>>

\* (min(a) - margin, max(a) + margin) with margin = margin_pct * (max(a) - min(a))
limits(a) ==
    LET dist == Max(a) - Min(a)
        margin == margin_pct * dist
    IN  <<10 * Min(a) - margin, 10 * Max(a) + margin>>

\* the display requested before the file is written
save_and_show_swapped(show, save_filepath) ==
    (IF show THEN <<"show">> ELSE <<>>)
        \o (IF save_filepath # None THEN <<"savefig">> ELSE <<>>)

\* the end of phase and of signal: plt.savefig(save_filepath) if a path is given,
\* then plt.show() if show
save_and_show(show, save_filepath) ==
    (IF save_filepath # None THEN <<"savefig">> ELSE <<>>)
        \o (IF show THEN <<"show">> ELSE <<>>)

\* the figure phase makes on pyplot state p
phase_figure(s, p, show, save_filepath) ==
    LET lines == colored_line(s.x, s.xder, s.t, <<15, 75>>,
                     [cmap |-> "magma_r",
                      label |-> "Bernstein Splines (" \o Fmt4f(s.comp_time) \o " s)",
                      linewidth |-> 2])
    IN  [num |-> Len(p.figs) + 1, kind |-> "phase", naxes |-> 1,
         drawn |-> lines.ax, colorbar |-> "$t$",
         xlim |-> limits(s.x), ylim |-> limits(s.xder),
         xlabel |-> "$x$", ylabel |-> <<"$\\dot{x}$">>,
         suptitle |-> "Phase portrait " \o s.title, title |-> s.param_desciption,
         saved |-> save_filepath,
         args |-> [show |-> show, save_filepath |-> save_filepath],
         log |-> <<"subplots", "add_collection", "colorbar", "set_xlim", "set_ylim",
                   "set", "suptitle", "title">> \o save_and_show(show, save_filepath)]

\* the figure signal makes on pyplot state p
signal_figure(s, p, show, save_filepath) ==
    [num |-> Len(p.figs) + 1, kind |-> "signal", naxes |-> 2,
     drawn |-> <<[xs |-> s.t, ys |-> s.x], [xs |-> s.t, ys |-> s.xder]>>, colorbar |-> "",
     xlim |-> <<>>, ylim |-> <<>>,
     xlabel |-> "t", ylabel |-> <<"$x$", "$\\dot{x}$">>,
     suptitle |-> "Signal of " \o s.title \o "\n" \o s.param_desciption, title |-> "",
     saved |-> save_filepath,
     args |-> [show |-> show, save_filepath |-> save_filepath],
     log |-> <<"subplots", "plot", "set", "plot", "set", "xlabel", "suptitle">>
                 \o save_and_show(show, save_filepath)]

\* pyplot after a new figure f was made and finished
WithFigure(p, f) ==
    [figs |-> Append(p.figs, f),
     shows |-> p.shows + (IF f.args.show THEN 1 ELSE 0)]

\* phase keeping its super-title on the object
phase_caching(s, p, show, save_filepath) ==
    [self |-> [s EXCEPT !.title = "Phase portrait " \o s.title],
     plt |-> WithFigure(p, phase_figure(s, p, show, save_filepath))]

\* VdP_Plotter.phase(show, save_filepath): the object and pyplot afterwards
phase(s, p, show, save_filepath) ==
    [self |-> s, plt |-> WithFigure(p, phase_figure(s, p, show, save_filepath))]

\* VdP_Plotter.signal(show, save_filepath): the object and pyplot afterwards
signal(s, p, show, save_filepath) ==
    [self |-> s, plt |-> WithFigure(p, signal_figure(s, p, show, save_filepath))]

\* VdP_Plotter.show_plots()
show_plots(s, p) == [self |-> s, plt |-> [p EXCEPT !.shows = @ + 1]]

(***************************************************************************)
(* The plotter's inputs.                                                   *)
(***************************************************************************)
Times(n) == [i \in 1..n |-> i - 1]

\* the run of section 8 of the specification, and a run whose position is constant
Runs ==
    {[x |-> <<0, 1, 2, 1, 0>>, xder |-> <<1, 0, 0 - 1, 0, 1>>, t |-> Times(5)],
     [x |-> <<2, 2>>, xder |-> <<0, 0 - 2>>, t |-> Times(2)]}

\* trajectories of 2 .. MaxLen samples over the positions -2, 0, 2
PhaseRuns ==
    UNION {{[x |-> x, xder |-> xder, t |-> Times(n)] :
               x \in [1..n -> {0 - 2, 0, 2}], xder \in [1..n -> {0 - 2, 0, 2}]} :
           n \in 2..MaxLen}

Forcings ==
    {None,
     Some([A |-> PyInt(0), omega |-> PyFloat(1000)]),
     Some([A |-> PyFloat(0), omega |-> PyFloat(2718)]),
     Some([A |-> PyInt(2), omega |-> PyFloat(1000)]),
     Some([A |-> PyFloat(1234), omega |-> PyFloat(2718)])}

\* caption inputs: classical and fractional exponents, with and without forcing,
\* values that rounding changes and values it leaves alone
CaptionInputs ==
    [alpha : {PyInt(1), PyFloat(1000), PyFloat(500), PyFloat(999)},
     forcing_params : Forcings,
     mu : {PyInt(1), PyFloat(2500)},
     T : {PyFloat(10000), PyFloat(12346)},
     dt : {PyFloat(10), PyFloat(4)},
     n_eval : {PyInt(1000), PyFloat(2500)}]

\* the two caption inputs the plots are made with
PlotCaptionInputs ==
    {[alpha |-> PyInt(1), forcing_params |-> None, mu |-> PyInt(1),
      T |-> PyFloat(10000), dt |-> PyFloat(10), n_eval |-> PyInt(1000)],
     [alpha |-> PyFloat(500), forcing_params |-> Some([A |-> PyInt(2), omega |-> PyFloat(1000)]),
      mu |-> PyInt(1), T |-> PyFloat(10000), dt |-> PyFloat(10), n_eval |-> PyInt(1000)]}

Paths == {None, Some("phase.png")}

\* the state after VdP_Plotter(...) was constructed from run r and caption inputs k
Constructed(r, k) ==
    /\ self = VdP_Plotter(r.x, r.xder, r.t, [mu |-> k.mu], k.alpha, k.dt, k.T,
                          k.n_eval, PyFloat(1234), k.forcing_params)
    /\ self0 = self
    /\ plt = NoFigures
    /\ ops = 0
    /\ ret = None
    /\ line = Pending(<<>>, <<>>, <<>>, <<>>)
    /\ cm = <<>>

(***************************************************************************)
(* Specification SpecCaptions: generate_captions on bounded inputs.        *)
(***************************************************************************)
InitCaptions ==
    \E k \in CaptionInputs :
        Constructed([x |-> <<0, 1>>, xder |-> <<1, 0>>, t |-> Times(2)], k)

CaptionsOnce ==
    /\ ops = 0
    /\ ret' = Some(generate_captions(self))
    /\ ops' = 1
    /\ UNCHANGED <<line, cm, self, self0, plt>>

NextCaptions == CaptionsOnce

SpecCaptions == InitCaptions /\ [][NextCaptions]_vars

(***************************************************************************)
(* Specification SpecPhase: one call of phase on bounded trajectories.     *)
(***************************************************************************)
InitPhase ==
    \E r \in PhaseRuns, k \in PlotCaptionInputs : Constructed(r, k)

PhaseOnce ==
    /\ ops = 0
    /\ LET r == phase(self, plt, FALSE, None)
       IN  self' = r.self /\ plt' = r.plt
    /\ ops' = 1
    /\ UNCHANGED <<line, cm, self0, ret>>

NextPhase == PhaseOnce

SpecPhase == InitPhase /\ [][NextPhase]_vars

(***************************************************************************)
(* Specification SpecPlotter: sequences of up to MaxCalls calls of the     *)
(* methods of one VdP_Plotter.                                             *)
(***************************************************************************)
InitPlotter ==
    \E r \in Runs, k \in PlotCaptionInputs : Constructed(r, k)

PhaseCall ==
    /\ ops < MaxCalls
    /\ \E show \in BOOLEAN, save_filepath \in Paths :
          LET r == phase(self, plt, show, save_filepath)
          IN  self' = r.self /\ plt' = r.plt
    /\ ops' = ops + 1
    /\ UNCHANGED <<line, cm, self0, ret>>

SignalCall ==
    /\ ops < MaxCalls
    /\ \E show \in BOOLEAN, save_filepath \in Paths :
          LET r == signal(self, plt, show, save_filepath)
          IN  self' = r.self /\ plt' = r.plt
    /\ ops' = ops + 1
    /\ UNCHANGED <<line, cm, self0, ret>>

ShowPlotsCall ==
    /\ ops < MaxCalls
    /\ LET r == show_plots(self, plt)
       IN  self' = r.self /\ plt' = r.plt
    /\ ops' = ops + 1
    /\ UNCHANGED <<line, cm, self0, ret>>

GenerateCaptionsCall ==
    /\ ops < MaxCalls
    /\ ret' = Some(generate_captions(self))
    /\ ops' = ops + 1
    /\ UNCHANGED <<line, cm, self, self0, plt>>

NextPlotter == PhaseCall \/ SignalCall \/ ShowPlotsCall \/ GenerateCaptionsCall

SpecPlotter == InitPlotter /\ [][NextPlotter]_vars

(***************************************************************************)
(* Properties of generate_captions (specification SpecCaptions).           *)
(***************************************************************************)
Fractional == self.alpha.m # 1000

Forced == self.forcing_params # None /\ self.forcing_params[1].A.m # 0

\* the title the specification gives for each case of the two words
TitleFor(fractional, forced) ==
    CASE fractional /\ forced -> "fractionally dampened forced VdP Oscillator"
      [] fractional /\ ~forced -> "fractionally dampened VdP Oscillator"
      [] ~fractional /\ forced -> "dampened forced VdP Oscillator"
      [] OTHER -> "dampened VdP Oscillator"

\* C3: the title is "[fractionally ]dampened [forced ]VdP Oscillator", with
\* "fractionally " exactly when alpha != 1 and "forced " exactly when forcing
\* parameters are supplied with A != 0, in the constructed object and in every
\* value generate_captions returns.
C3_Title ==
    /\ self.title = TitleFor(Fractional, Forced)
    /\ ret # None => ret[1][1] = TitleFor(Fractional, Forced)
    /\ (self.alpha.m = 1000 /\ self.forcing_params = None) =>
          self.title = "dampened VdP Oscillator"
    /\ (self.alpha = PyFloat(500) /\ self.forcing_params # None
            /\ self.forcing_params[1].A.m = 0) =>
          self.title = "fractionally dampened VdP Oscillator"

\* generate_captions returned for alpha = 0.5 and forcing parameters with A = 0
C3_Witness ==
    /\ ops = 1
    /\ ret # None
    /\ self.alpha = PyFloat(500)
    /\ self.forcing_params # None
    /\ self.forcing_params[1].A.m = 0
    /\ ret[1][1] = "fractionally dampened VdP Oscillator"

\* the hundredth nearest to a float (an int is left as it is), said without np_round
NearestHundredth(v) ==
    IF v.ty = "int" THEN v
    ELSE PyFloat(CHOOSE w \in {10 * q : q \in (v.m \div 10)..(v.m \div 10 + 1)} :
                     \A u \in {10 * q : q \in (v.m \div 10)..(v.m \div 10 + 1)} :
                         (IF w > v.m THEN w - v.m ELSE v.m - w)
                             <= (IF u > v.m THEN u - v.m ELSE v.m - u))

\* the subtitle built part by part in the order the specification gives; the
\* amplitude is printed rounded to 2 decimals when roundA, as given otherwise
SubtitleFor(roundA) ==
    "$" \o (IF Fractional THEN "\\alpha=" \o str(self.alpha) \o ", " ELSE "")
        \o "\\mu=" \o str(self.params.mu)
        \o (IF Forced
            THEN ", A=" \o str(IF roundA THEN NearestHundredth(self.forcing_params[1].A)
                                         ELSE self.forcing_params[1].A)
                     \o ", \\omega=" \o str(NearestHundredth(self.forcing_params[1].omega))
            ELSE "")
        \o ". T = " \o str(NearestHundredth(self.T))
        \o ", h=" \o str(NearestHundredth(self.dt))
        \o ", q = " \o ToString(self.n_eval.m \div 1000) \o "$"

\* the inputs alpha = 1, mu = 1, A = 2, omega = 1.0, T = 10.0, h = 0.01, q = 1000
ForcedExample ==
    /\ self.alpha = PyInt(1)
    /\ self.params.mu = PyInt(1)
    /\ self.forcing_params = Some([A |-> PyInt(2), omega |-> PyFloat(1000)])
    /\ self.T = PyFloat(10000)
    /\ self.dt = PyFloat(10)
    /\ self.n_eval = PyInt(1000)

\* C4 as stated: the subtitle reports alpha (when alpha != 1), mu, the forcing
\* amplitude and angular frequency (when forced, both rounded to 2 decimals), T
\* and the step size rounded to 2 decimals, and the evaluation count as an integer.
C4_AsStated ==
    /\ self.param_desciption = SubtitleFor(TRUE)
    /\ ret # None => ret[1][2] = SubtitleFor(TRUE)

\* C4 as amended: as stated, except that the amplitude is printed as given (only
\* the angular frequency, T and the step size are rounded).  With A = 2 and
\* omega = 1.0 the subtitle contains ", A=2" and "\omega=1.0".
C4_Amended ==
    /\ self.param_desciption = SubtitleFor(FALSE)
    /\ ret # None => ret[1][2] = SubtitleFor(FALSE)
    /\ ForcedExample =>
          self.param_desciption = "$\\mu=1, A=2, \\omega=1.0. T = 10.0, h=0.01, q = 1000$"

\* generate_captions returned for an amplitude with three decimals
C4_Witness ==
    /\ ops = 1
    /\ ret # None
    /\ self.forcing_params = Some([A |-> PyFloat(1234), omega |-> PyFloat(2718)])
    /\ ret[1][2] = "$\\alpha=0.5, \\mu=2.5, A=1.234, \\omega=2.72. T = 12.35, h=0.0, q = 2$"

(***************************************************************************)
(* Properties of phase (specification SpecPhase).                          *)
(***************************************************************************)
\* lo and hi are the least and the greatest value of sequence a
Spans(a, lo, hi) ==
    /\ lo \in Range(a)
    /\ hi \in Range(a)
    /\ \A v \in Range(a) : lo <= v /\ v <= hi

\* limits lim (in tenths) are the span of a widened by a tenth of it on each side
Widened(lim, a) ==
    \E lo \in Range(a), hi \in Range(a) :
        /\ Spans(a, lo, hi)
        /\ lim[1] = 10 * lo - (hi - lo)
        /\ lim[2] = 10 * hi + (hi - lo)

\* C5: phase sets the x limits to [min(x) - 0.1*(max(x) - min(x)),
\* max(x) + 0.1*(max(x) - min(x))] and the y limits likewise from the velocity:
\* [-2, 2] gives [-2.4, 2.4], [0, 2] gives [-0.2, 2.2], and a constant sequence
\* gives equal limits without the call failing.
C5_Limits ==
    ops = 1 =>
        /\ Len(plt.figs) = 1
        /\ Widened(plt.figs[1].xlim, self.x)
        /\ Widened(plt.figs[1].ylim, self.xder)
        /\ Spans(self.x, 0 - 2, 2) => plt.figs[1].xlim = <<0 - 24, 24>>
        /\ Spans(self.x, 0, 2) => plt.figs[1].xlim = <<0 - 2, 22>>
        /\ Spans(self.xder, 0 - 2, 2) => plt.figs[1].ylim = <<0 - 24, 24>>
        /\ \A v \in {0 - 2, 0, 2} :
              /\ Spans(self.x, v, v) => plt.figs[1].xlim = <<10 * v, 10 * v>>
              /\ Spans(self.xder, v, v) => plt.figs[1].ylim = <<10 * v, 10 * v>>
        /\ plt.figs[1].log[Len(plt.figs[1].log)] = "title"

\* phase was called on positions spanning [-2, 2] and a constant velocity
C5_Witness ==
    /\ ops = 1
    /\ Spans(self.x, 0 - 2, 2)
    /\ Spans(self.xder, 2, 2)
    /\ plt.figs[1].xlim = <<0 - 24, 24>>
    /\ plt.figs[1].ylim = <<20, 20>>

(***************************************************************************)
(* Properties of the plotter's methods (specification SpecPlotter).        *)
(***************************************************************************)
\* C9: the data, the metadata and the two captions are set in the constructor
\* and left unchanged by phase, signal, show_plots and generate_captions; the
\* captions are what generate_captions returns for the construction-time inputs.
C9_Frame ==
    /\ self = self0
    /\ self.title = generate_captions(self0)[1]
    /\ self.param_desciption = generate_captions(self0)[2]
    /\ ret # None => ret[1] = <<self0.title, self0.param_desciption>>

\* three calls were made, among them a plot and generate_captions
C9_Witness ==
    /\ ops = 3
    /\ Len(plt.figs) >= 1
    /\ plt.figs[1].kind = "phase"
    /\ ret # None
    /\ self = self0

\* the place of call e in log l
Pos(l, e) == CHOOSE i \in DOMAIN l : l[i] = e

\* the pyplot calls that draw on and set up a figure
Drawing == {"subplots", "add_collection", "colorbar", "set_xlim", "set_ylim", "set",
            "plot", "xlabel", "suptitle", "title"}

\* C10: a call of phase or signal writes its figure to a file exactly when
\* save_filepath is not None and asks for the display exactly when show is true;
\* the file is written after every curve, axis setting and title of the figure
\* and before the display; each call makes its own new figure.
C10_SaveThenShow ==
    /\ \A i \in DOMAIN plt.figs :
          LET f == plt.figs[i]
          IN  /\ f.num = i
              /\ f.log[1] = "subplots"
              /\ Cardinality({j \in DOMAIN f.log : f.log[j] = "subplots"}) = 1
              /\ ("savefig" \in Range(f.log)) <=> (f.args.save_filepath # None)
              /\ f.saved = f.args.save_filepath
              /\ ("show" \in Range(f.log)) <=> f.args.show
              /\ Cardinality({j \in DOMAIN f.log : f.log[j] \in {"savefig", "show"}})
                     = (IF f.args.save_filepath # None THEN 1 ELSE 0)
                           + (IF f.args.show THEN 1 ELSE 0)
              /\ "savefig" \in Range(f.log) =>
                    \A j \in DOMAIN f.log :
                        f.log[j] \in Drawing => j < Pos(f.log, "savefig")
              /\ "show" \in Range(f.log) =>
                    \A j \in DOMAIN f.log :
                        f.log[j] \in Drawing \cup {"savefig"} => j < Pos(f.log, "show")
    /\ Len(plt.figs) <= ops

\* a phase call and a signal call that both saved and showed their figures
C10_Witness ==
    /\ Len(plt.figs) = 2
    /\ plt.figs[1].kind = "phase"
    /\ plt.figs[2].kind = "signal"
    /\ \A i \in 1..2 :
          /\ plt.figs[i].args.show
          /\ plt.figs[i].args.save_filepath = Some("phase.png")
          /\ SubSeq(plt.figs[i].log, Len(plt.figs[i].log) - 1, Len(plt.figs[i].log))
                 = <<"savefig", "show">>
====
